---- MODULE Spec2Model ----
(***************************************************************************)
(* Model of the MelodyCompare backend (src/server.js): the three           *)
(* process-wide maps, the expiry timers of shared analyses, and the        *)
(* handlers of the API router.                                             *)
(***************************************************************************)
EXTENDS Integers, Sequences, FiniteSets, TLC

VARIABLES
    sharedAnalyses,   \* Map id -> {analysisData, reportText}     (line 23)
    catalogEntries,   \* Map id -> entry, in insertion order      (line 24)
    audioStore,       \* Map id -> {buffer, mimetype}             (line 25)
    timers,           \* pending setTimeout callbacks of /share, in firing order
    now,              \* Date.now(), in milliseconds since process start
    issuedUuids,      \* values crypto.randomUUID() has returned so far
    useLiveAnalysis,  \* whether the ACRCloud credentials are configured (line 41)
    chat,             \* the /assistant-chat request in progress, if any
    resp,             \* the response written to the most recent request
    call,             \* history: what that request carried and what the external
                      \* services answered while it was handled
    shareLog,         \* history: the successful /share requests, oldest first
    audioLog,         \* history: id -> the latest file stored, and whether it replaced one
    submitLog,        \* history: the entries returned by /catalog/submit
    issuedIds         \* history: every identifier the server generated

vars == <<sharedAnalyses, catalogEntries, audioStore, timers, now, issuedUuids,
          useLiveAnalysis, chat, resp, call, shareLog, audioLog, submitLog, issuedIds>>

stores == <<sharedAnalyses, catalogEntries, audioStore>>
history == <<shareLog, audioLog, submitLog, issuedIds>>

----------------------------------------------------------------------------
(* Bounds and input domains *)

MaxTicks == 2          \* the clock stops after this many ticks
MaxShares == 2         \* successful /share requests per behaviour
RandGrain == 8         \* Math.random() returns k / RandGrain, k in 0..RandGrain-1

TickMs == 12 * 60 * 60 * 1000          \* one clock tick: 12 hours

Undefined == "undefined"               \* a field the request does not carry

ShareIds == {"a1", "a2"}               \* values of randomBytes(6).toString('hex')
Uuids == {"u1", "u2"}                  \* values of crypto.randomUUID()
PathIds == {"u1", "x"}                 \* the :id route parameter, sent by the client
AllIds == ShareIds \cup Uuids \cup PathIds

AnalysisPayloads == {"d1", "d2"}       \* analysisData as posted to /share
ReportTexts == {"r1"}            \* reportText as posted to /share

\* Files as multer.memoryStorage() hands them over: bytes and MIME type.
Files == { [buffer |-> <<1>>, mimetype |-> "audio/mpeg"],
           [buffer |-> <<1, 2>>, mimetype |-> "audio/wav"] }

----------------------------------------------------------------------------
(* JavaScript helpers *)

\* !v for the values a request field takes here.
Falsy(v) == v = Undefined \/ v = ""

\* A set() that leaves a present key alone.
MapSetKeepFirst(m, k, v) == [x \in (DOMAIN m) \cup {k} |-> IF x \in DOMAIN m THEN m[x] ELSE v]

\* Map.prototype.set on a map whose order is never observed.
MapSet(m, k, v) == [x \in (DOMAIN m) \cup {k} |-> IF x = k THEN v ELSE m[x]]

\* Map.prototype.delete.
MapDelete(m, k) == [x \in (DOMAIN m) \ {k} |-> m[x]]

\* Map.prototype.has; get() of a present key is an object here, hence truthy.
MapHas(m, k) == k \in DOMAIN m

\* Map.prototype.get of a present key.
MapGet(m, k) == m[k]

EmptyMap == [x \in {} |-> Undefined]

\* No answer from ACRCloud: it was not asked.
NoAcr == [kind |-> "none", code |-> 0, music |-> <<>>]

\* History of a request no external service is called for.
NoCall == [fileMissing |-> FALSE, fieldMissing |-> FALSE, acr |-> NoAcr, gen |-> "none",
           acrCalls |-> 0]

\* History of a request whose JSON or form body lacks a required field.
LackingField == [NoCall EXCEPT !.fieldMissing = TRUE]

\* History of an upload to one of the stores.
Carried(hasFile) == [NoCall EXCEPT !.fileMissing = ~hasFile]

\* handleApiError: status 500 and the generic message.
HandleApiError(ep, context) ==
    [ep |-> ep, status |-> 500,
     body |-> [error |-> <<"Failed to", context, "Please check the server logs.">>]]

ErrorResponse(ep, code, msg) == [ep |-> ep, status |-> code, body |-> [error |-> msg]]

----------------------------------------------------------------------------
(* POST /share and its expiry timer, GET /analysis/:id *)

ShareTtlMs == 24 * 60 * 60 * 1000

\* crypto.randomBytes(6).toString('hex'): six random bytes, any value of the
\* identifier space; nothing in the handler looks for the value in the map.
RandomShareId == ShareIds

\* History of a successful audioStore.set(id, file).
LogAudio(log, id, file) ==
    [x \in (DOMAIN log) \cup {id} |->
        IF x = id THEN [file |-> file, replaced |-> id \in DOMAIN log] ELSE log[x]]

Share ==
    \E analysisData \in AnalysisPayloads \cup {Undefined},
       reportText \in ReportTexts \cup {Undefined, ""} :
        IF Falsy(analysisData) \/ Falsy(reportText)
        THEN /\ resp' = ErrorResponse("POST /share", 400,
                    "Analysis data and report text are required to create a shareable link.")
             /\ call' = LackingField
             /\ UNCHANGED <<stores, timers, now, issuedUuids, useLiveAnalysis, chat, history>>
        ELSE /\ Len(shareLog) < MaxShares
             /\ call' = NoCall
             /\ \E id \in RandomShareId :
                  /\ sharedAnalyses' = MapSet(sharedAnalyses, id,
                        [analysisData |-> analysisData, reportText |-> reportText])
                  /\ timers' = Append(timers, [id |-> id, due |-> now + ShareTtlMs])
                  /\ resp' = [ep |-> "POST /share", status |-> 201, body |-> [id |-> id]]
                  /\ shareLog' = Append(shareLog,
                        [id |-> id, analysisData |-> analysisData,
                         reportText |-> reportText, fired |-> FALSE, at |-> now])
                  /\ issuedIds' = issuedIds \cup {id}
             /\ UNCHANGED <<catalogEntries, audioStore, now, issuedUuids,
                            useLiveAnalysis, chat, audioLog, submitLog>>

\* Index in shareLog of the request whose timer is the head of timers: the timers
\* all have the same delay, so they fire in the order they were set.
OldestPending == CHOOSE i \in 1..Len(shareLog) :
                    /\ ~shareLog[i].fired
                    /\ \A j \in 1..(i - 1) : shareLog[j].fired

\* The setTimeout callback of /share.
ExpireShared ==
    /\ timers # <<>>
    /\ Head(timers).due <= now
    /\ sharedAnalyses' = MapDelete(sharedAnalyses, Head(timers).id)
    /\ timers' = Tail(timers)
    /\ shareLog' = [shareLog EXCEPT ![OldestPending].fired = TRUE]
    /\ UNCHANGED <<catalogEntries, audioStore, now, issuedUuids, useLiveAnalysis,
                   chat, resp, call, audioLog, submitLog, issuedIds>>

Tick ==
    /\ now < MaxTicks * TickMs
    /\ now' = now + TickMs
    /\ UNCHANGED <<stores, timers, issuedUuids, useLiveAnalysis, chat, resp, call, history>>

AnalysisResponse(id) ==
    IF MapHas(sharedAnalyses, id)
    THEN [ep |-> "GET /analysis", status |-> 200, body |-> MapGet(sharedAnalyses, id)]
    ELSE ErrorResponse("GET /analysis", 404,
                       "Shared analysis not found. It may have expired.")

\* A link that can be followed once: the entry is deleted when it is read.
GetAnalysisOnce ==
    \E id \in AllIds :
        /\ resp' = AnalysisResponse(id)
        /\ call' = NoCall
        /\ sharedAnalyses' = MapDelete(sharedAnalyses, id)
        /\ UNCHANGED <<catalogEntries, audioStore, timers, now, issuedUuids,
                       useLiveAnalysis, chat, history>>

GetAnalysis ==
    \E id \in AllIds :
        /\ resp' = AnalysisResponse(id)
        /\ call' = NoCall
        /\ UNCHANGED <<stores, timers, now, issuedUuids, useLiveAnalysis, chat, history>>

----------------------------------------------------------------------------
(* POST /analysis-audio/:id and GET /audio/:id *)

StoredAudio(file) == [buffer |-> file.buffer, mimetype |-> file.mimetype]

AnalysisAudio ==
    \E id \in PathIds, hasFile \in BOOLEAN :
        /\ call' = Carried(hasFile)
        /\ IF ~hasFile
           THEN /\ resp' = ErrorResponse("POST /analysis-audio", 400, "No audio file was uploaded.")
                /\ UNCHANGED <<stores, timers, now, issuedUuids, useLiveAnalysis, chat, history>>
           ELSE IF Falsy(id)
           THEN /\ resp' = ErrorResponse("POST /analysis-audio", 400, "An analysis ID is required.")
                /\ UNCHANGED <<stores, timers, now, issuedUuids, useLiveAnalysis, chat, history>>
           ELSE \E audioFile \in Files :
                /\ audioStore' = MapSet(audioStore, id, StoredAudio(audioFile))
                /\ resp' = [ep |-> "POST /analysis-audio", status |-> 204, body |-> <<>>]
                /\ audioLog' = LogAudio(audioLog, id, audioFile)
                /\ UNCHANGED <<sharedAnalyses, catalogEntries, timers, now, issuedUuids,
                               useLiveAnalysis, chat, shareLog, submitLog, issuedIds>>

AudioResponse(id) ==
    IF MapHas(audioStore, id)
    THEN LET audio == MapGet(audioStore, id)
         IN  [ep |-> "GET /audio", status |-> 200,
              body |-> [contentType |-> audio.mimetype,
                        contentLength |-> Len(audio.buffer),
                        bytes |-> audio.buffer]]
    ELSE ErrorResponse("GET /audio", 404, "Audio file not found.")

GetAudio ==
    \E id \in AllIds :
        /\ resp' = AudioResponse(id)
        /\ call' = NoCall
        /\ UNCHANGED <<stores, timers, now, issuedUuids, useLiveAnalysis, chat, history>>

----------------------------------------------------------------------------
(* POST /catalog/submit and GET /catalog/entries *)

\* Text fields of the multipart body as JavaScript values: a string is a sequence
\* of characters; a field sent twice arrives as an array; a field not sent is
\* undefined.
JsUndefined == [t |-> "undefined", v |-> <<>>]
JsString(chars) == [t |-> "string", v |-> chars]
JsArray(items) == [t |-> "array", v |-> items]

\* !v for a body field: undefined and the empty string are falsy.
FalsyJs(x) == x.t = "undefined" \/ (x.t = "string" /\ x.v = <<>>)

TitleInputs == {JsUndefined, JsString(<<"T">>)}
TagsInputs == {JsUndefined, JsString(<<"a", ",", " ", "b">>),
               JsArray(<<JsString(<<"a">>), JsString(<<"b">>)>>)}
RiskScoreInputs == {JsUndefined, JsString(<<"4", "2">>)}

\* The plain text fields genre, analysisId, userId and userName: the request
\* carries all of them, all but one, or none.
PlainTextFields == {"genre", "analysisId", "userId", "userName"}
AbsentTextFields == {{}, PlainTextFields} \cup {{f} : f \in PlainTextFields}
TextField(name, absent) == IF name \in absent THEN JsUndefined ELSE JsString(<<"v">>)

RECURSIVE SplitAcc(_, _, _)
SplitAcc(chars, sep, cur) ==
    IF chars = <<>> THEN <<cur>>
    ELSE IF Head(chars) = sep THEN <<cur>> \o SplitAcc(Tail(chars), sep, <<>>)
    ELSE SplitAcc(Tail(chars), sep, Append(cur, Head(chars)))

\* String.prototype.split(sep) for a one-character separator.
Split(chars, sep) == SplitAcc(chars, sep, <<>>)

RECURSIVE TrimStart(_)
TrimStart(chars) ==
    IF chars # <<>> /\ Head(chars) = " " THEN TrimStart(Tail(chars)) ELSE chars

RECURSIVE TrimEnd(_)
TrimEnd(chars) ==
    IF chars # <<>> /\ chars[Len(chars)] = " "
    THEN TrimEnd(SubSeq(chars, 1, Len(chars) - 1)) ELSE chars

\* String.prototype.trim.
Trim(chars) == TrimEnd(TrimStart(chars))

\* tags.split(',').map(t => t.trim())
SplitTags(chars) == LET parts == Split(chars, ",")
                    IN  [i \in 1..Len(parts) |-> Trim(parts[i])]

Digits == <<"0", "1", "2", "3", "4", "5", "6", "7", "8", "9">>
IsDigit(c) == \E d \in 1..10 : Digits[d] = c
DigitValue(c) == (CHOOSE d \in 1..10 : Digits[d] = c) - 1

RECURSIVE Decimal(_, _)
Decimal(chars, acc) ==
    IF chars = <<>> THEN acc ELSE Decimal(Tail(chars), 10 * acc + DigitValue(Head(chars)))

\* Number(string) for the strings used here: digits give their value, an empty or
\* blank string gives 0, anything else NaN.
ToNumber(chars) ==
    LET t == Trim(chars)
    IN  IF \A i \in 1..Len(t) : IsDigit(t[i])
        THEN [nan |-> FALSE, n |-> Decimal(t, 0)]
        ELSE [nan |-> TRUE, n |-> 0]

\* A generator that may repeat itself.
RepeatingUUID == Uuids

\* crypto.randomUUID(): a version-4 UUID, taken to be unique as its contract (and
\* the comment at line 578) has it: never a value it returned before.
RandomUUID == Uuids \ issuedUuids

\* Map.prototype.set on a map kept in insertion order: a present key keeps its
\* position and gets the new value.
OrderedSet(m, k, v) ==
    IF \E i \in 1..Len(m) : m[i].id = k
    THEN [i \in 1..Len(m) |-> IF m[i].id = k THEN v ELSE m[i]]
    ELSE Append(m, v)

OrderedKeys(m) == {m[i].id : i \in 1..Len(m)}

\* The validation with the file left out of it.
CatalogFieldsMissingIgnoringFile(title, genre, tags, analysisId, riskScore, userId, userName, hasFile) ==
    \/ FalsyJs(title) \/ FalsyJs(genre) \/ FalsyJs(tags) \/ FalsyJs(analysisId)
    \/ FalsyJs(riskScore) \/ FalsyJs(userId) \/ FalsyJs(userName)

\* !title || !genre || !tags || !analysisId || !riskScore || !userId || !userName
\* || !audioFile
CatalogFieldsMissing(title, genre, tags, analysisId, riskScore, userId, userName, hasFile) ==
    \/ FalsyJs(title) \/ FalsyJs(genre) \/ FalsyJs(tags) \/ FalsyJs(analysisId)
    \/ FalsyJs(riskScore) \/ FalsyJs(userId) \/ FalsyJs(userName) \/ ~hasFile

CatalogSubmit ==
    \E title \in TitleInputs, tags \in TagsInputs, riskScore \in RiskScoreInputs,
       absent \in AbsentTextFields, hasFile \in BOOLEAN :
       LET genre == TextField("genre", absent)
           analysisId == TextField("analysisId", absent)
           userId == TextField("userId", absent)
           userName == TextField("userName", absent)
       IN
        /\ call' = [Carried(hasFile) EXCEPT !.fieldMissing =
                        \/ FalsyJs(title) \/ FalsyJs(genre) \/ FalsyJs(tags)
                        \/ FalsyJs(analysisId) \/ FalsyJs(riskScore)
                        \/ FalsyJs(userId) \/ FalsyJs(userName)]
        /\ IF CatalogFieldsMissing(title, genre, tags, analysisId, riskScore, userId,
                                   userName, hasFile)
           THEN /\ resp' = ErrorResponse("POST /catalog/submit", 400,
                                         "Missing required fields for catalog submission.")
                /\ UNCHANGED <<stores, timers, now, issuedUuids, useLiveAnalysis, chat, history>>
           ELSE \E id \in RandomUUID, audioFile \in Files :
                /\ issuedUuids' = issuedUuids \cup {id}
                /\ issuedIds' = issuedIds \cup {id}
                /\ IF tags.t # "string"
                   THEN \* tags.split is not a function: the TypeError reaches the catch
                        /\ resp' = HandleApiError("POST /catalog/submit", "submit to catalog")
                        /\ UNCHANGED <<stores, audioLog, submitLog>>
                   ELSE LET newEntry == [id |-> id,
                                         analysisId |-> analysisId.v,
                                         userId |-> userId.v,
                                         userName |-> userName.v,
                                         title |-> title.v,
                                         genre |-> genre.v,
                                         tags |-> SplitTags(tags.v),
                                         dateSubmitted |-> now,
                                         riskScore |-> ToNumber(riskScore.v)]
                        IN  /\ catalogEntries' = OrderedSet(catalogEntries, id, newEntry)
                            /\ audioStore' = MapSet(audioStore, id, StoredAudio(audioFile))
                            /\ resp' = [ep |-> "POST /catalog/submit", status |-> 201,
                                        body |-> newEntry]
                            /\ audioLog' = LogAudio(audioLog, id, audioFile)
                            /\ submitLog' = Append(submitLog, newEntry)
                            /\ UNCHANGED sharedAnalyses
                /\ UNCHANGED <<timers, now, useLiveAnalysis, chat, shareLog>>

RECURSIVE InsertByDateDesc(_, _)
InsertByDateDesc(sorted, e) ==
    IF sorted = <<>> THEN <<e>>
    ELSE IF Head(sorted).dateSubmitted >= e.dateSubmitted
    THEN <<Head(sorted)>> \o InsertByDateDesc(Tail(sorted), e)
    ELSE <<e>> \o sorted

RECURSIVE SortByDateDesc(_)
\* Array.prototype.sort with (a, b) => date(b) - date(a): newest first, stable.
SortByDateDesc(entries) ==
    IF entries = <<>> THEN <<>>
    ELSE InsertByDateDesc(SortByDateDesc(SubSeq(entries, 1, Len(entries) - 1)),
                          entries[Len(entries)])

CatalogEntriesResponse ==
    [ep |-> "GET /catalog/entries", status |-> 200, body |-> SortByDateDesc(catalogEntries)]

GetCatalogEntries ==
    /\ resp' = CatalogEntriesResponse
    /\ call' = NoCall
    /\ UNCHANGED <<stores, timers, now, issuedUuids, useLiveAnalysis, chat, history>>

----------------------------------------------------------------------------
(* The analysis synthesizer: POST /analyze and POST /compare *)

\* The analysis record, reduced to the fields the router's contract speaks of:
\* overview.similarity, riskLevel, riskScore and overallScore, and the number of
\* fingerprint matches.  The AI-detection constants, the stem breakdown and the
\* timeline are produced alongside and read by nothing in the server.
AnalysisData(similarity, riskLevel, riskScore, matches) ==
    [overview |-> [similarity |-> similarity, riskLevel |-> riskLevel,
                   riskScore |-> riskScore, overallScore |-> similarity],
     fingerprinting |-> [matches |-> matches]]

\* Math.floor(Math.random() * n), Math.random() ranging over the grid k / RandGrain.
RandomInt(n) == {(k * n) \div RandGrain : k \in 0..(RandGrain - 1)}

HighRiskAbove == 75
MediumRiskAbove == 40

\* The thresholds with >= in place of >.
RiskLevelInclusive(riskScore) ==
    IF riskScore >= HighRiskAbove THEN "High"
    ELSE IF riskScore >= MediumRiskAbove THEN "Medium" ELSE "Low"

\* riskScore > 75 ? 'High' : riskScore > 40 ? 'Medium' : 'Low'
RiskLevel(riskScore) ==
    IF riskScore > HighRiskAbove THEN "High"
    ELSE IF riskScore > MediumRiskAbove THEN "Medium" ELSE "Low"

\* createNoMatchResult: the records it can return.
CreateNoMatchResult == {AnalysisData(0, "Low", riskScore, 0) : riskScore \in RandomInt(15)}

\* What the fetch of runLiveFingerprinting can meet: a network error, a non-OK
\* HTTP response, or a JSON body with an ACRCloud status code and matches.
AcrScores == {0, 50, 75, 100}
AcrMusic == {<<>>, <<100, 50>>} \cup {<<score>> : score \in AcrScores}
AcrJson == [kind : {"json"}, code : {0, 1001, 3000}, music : AcrMusic]
AcrOutcomes == {[kind |-> "network-error", code |-> 0, music |-> <<>>],
                [kind |-> "http-error", code |-> 0, music |-> <<>>]} \cup AcrJson

AcrFailed(acr) ==
    acr.kind \in {"network-error", "http-error"} \/ (acr.kind = "json" /\ acr.code \notin {0, 1001})

\* How a fingerprinting step ends: it throws or returns a record; acrCalls
\* counts the requests it sent to ACRCloud.
Threw == [threw |-> TRUE, data |-> AnalysisData(0, "Low", 0, 0), acrCalls |-> 0]
Returned(data) == [threw |-> FALSE, data |-> data, acrCalls |-> 0]

\* transformAcrResponseToAnalysisData: throws on a status code other than 0 and
\* 1001, returns a no-match record when there are no matches, and otherwise
\* derives the record from the first (highest) score.
TransformAcrResponseToAnalysisData(acrResponse) ==
    IF acrResponse.code # 0 /\ acrResponse.code # 1001 THEN {Threw}
    ELSE IF Len(acrResponse.music) = 0 THEN {Returned(d) : d \in CreateNoMatchResult}
    ELSE LET highestSimilarity == acrResponse.music[1]
         IN  {Returned(AnalysisData(highestSimilarity, RiskLevel(riskScore), riskScore,
                                    Len(acrResponse.music))) :
                 riskScore \in {((highestSimilarity * 80) \div 100) + jitter :
                                    jitter \in RandomInt(20)}}

\* runLiveFingerprinting: one request to ACRCloud, no second attempt.
RunLiveFingerprinting(acr) ==
    {[r EXCEPT !.acrCalls = 1] :
        r \in IF acr.kind \in {"network-error", "http-error"} THEN {Threw}
              ELSE TransformAcrResponseToAnalysisData(acr)}

\* runSimulatedFingerprinting: the template with similarity, riskScore and
\* riskLevel redrawn; one match.
RunSimulatedFingerprinting ==
    {AnalysisData(similarity, RiskLevel(riskScore), riskScore, 1) :
        similarity \in {r + 10 : r \in RandomInt(80)},
        riskScore \in {r + 10 : r \in RandomInt(80)}}

\* A comparison that draws its similarity as the database scan does.
RunSimulatedComparisonLow ==
    {AnalysisData(similarity, RiskLevel(riskScore), riskScore, 1) :
        similarity \in {r + 10 : r \in RandomInt(80)},
        riskScore \in {r + 10 : r \in RandomInt(80)}}

\* runSimulatedComparison: similarity in 50..99, riskScore
\* floor(similarity * 0.8) plus a jitter below 20; one match, the uploaded track.
RunSimulatedComparison ==
    UNION {{AnalysisData(similarity, RiskLevel(riskScore), riskScore, 1) :
               riskScore \in {((similarity * 8) \div 10) + jitter : jitter \in RandomInt(20)}} :
           similarity \in {r + 50 : r \in RandomInt(50)}}

\* generateInitialReport: the generative-text call returns a text or throws.
GenOutcomes == {"text", "throw"}
ReportText == "report"

\* A fingerprinting step that asks ACRCloud whatever the configuration is.
FingerprintAlwaysLive(live, acr) == RunLiveFingerprinting(acr)

\* The fingerprinting step of /analyze: live when the credentials are
\* configured, simulated otherwise.
Fingerprint(live, acr) ==
    IF live THEN RunLiveFingerprinting(acr)
    ELSE {Returned(d) : d \in RunSimulatedFingerprinting}

AnalyzeRequest(hasFile) ==
        /\ UNCHANGED <<stores, timers, now, issuedUuids, useLiveAnalysis, chat, history>>
        /\ IF ~hasFile
           THEN /\ resp' = ErrorResponse("POST /analyze", 400, "No audio file was uploaded.")
                /\ call' = Carried(hasFile)
           ELSE \E acr \in (IF useLiveAnalysis THEN AcrOutcomes ELSE {NoAcr}),
                   gen \in GenOutcomes :
                \E r \in Fingerprint(useLiveAnalysis, acr) :
                   LET asked == r.acrCalls
                       seen == acr
                   IN  IF r.threw
                       THEN /\ resp' = HandleApiError("POST /analyze",
                                           "perform analysis and generate report")
                            /\ call' = [NoCall EXCEPT !.acr = seen, !.acrCalls = asked]
                       ELSE /\ call' = [NoCall EXCEPT !.acr = seen, !.gen = gen,
                                                       !.acrCalls = asked]
                            /\ IF gen = "throw"
                               THEN resp' = HandleApiError("POST /analyze",
                                               "perform analysis and generate report")
                               ELSE resp' = [ep |-> "POST /analyze", status |-> 200,
                                             body |-> [analysisData |-> r.data,
                                                       reportText |-> ReportText]]

Analyze == \E hasFile \in BOOLEAN : AnalyzeRequest(hasFile)

CompareRequest(hasAiSong, hasCopyrightedSong) ==
        /\ UNCHANGED <<stores, timers, now, issuedUuids, useLiveAnalysis, chat, history>>
        /\ IF ~hasAiSong \/ ~hasCopyrightedSong
           THEN /\ resp' = ErrorResponse("POST /compare", 400,
                              "Both an AI song and a copyrighted song must be uploaded.")
                /\ call' = Carried(FALSE)
           ELSE \E analysisData \in RunSimulatedComparison, gen \in GenOutcomes :
                /\ call' = [NoCall EXCEPT !.gen = gen]
                /\ IF gen = "throw"
                   THEN resp' = HandleApiError("POST /compare", "perform song comparison")
                   ELSE resp' = [ep |-> "POST /compare", status |-> 200,
                                 body |-> [analysisData |-> analysisData,
                                           reportText |-> ReportText]]

Compare ==
    \E hasAiSong \in BOOLEAN, hasCopyrightedSong \in BOOLEAN :
        CompareRequest(hasAiSong, hasCopyrightedSong)

----------------------------------------------------------------------------
(* The JSON endpoints that talk to the generative-text API *)

\* POST /generate-report
GenerateReport ==
    \E analysisData \in AnalysisPayloads \cup {Undefined}, gen \in GenOutcomes :
        /\ UNCHANGED <<stores, timers, now, issuedUuids, useLiveAnalysis, chat, history>>
        /\ IF Falsy(analysisData)
           THEN /\ resp' = ErrorResponse("POST /generate-report", 400, "analysisData is required.")
                /\ call' = LackingField
           ELSE /\ call' = [NoCall EXCEPT !.gen = gen]
                /\ IF gen = "throw"
                   THEN resp' = HandleApiError("POST /generate-report", "generate initial report")
                   ELSE resp' = [ep |-> "POST /generate-report", status |-> 200,
                                 body |-> [reportText |-> ReportText]]

\* The shapes of the analysisData posted to /brainstorm: absent, a full analysis
\* record, or an object without stemAnalysis.
BrainstormPayloads == {Undefined, "record", "no-stemAnalysis"}
BrainstormModes == {"titles", "lyrics", "chords", Undefined}

\* What generateContent does for /brainstorm: it returns the text of a JSON
\* array, returns text that is no JSON, or throws.
BrainstormOutcomes == {"json", "not-json", "throw"}

\* getBrainstormingPrompt reads data.stemAnalysis, data.overview and
\* data.aiAnalysis: it throws a TypeError unless data is a full record.
BrainstormPromptThrows(analysisData) == analysisData # "record"

\* POST /brainstorm: no validation of the body precedes the prompt.
Brainstorm ==
    \E analysisData \in BrainstormPayloads, mode \in BrainstormModes,
       gen \in BrainstormOutcomes :
        /\ UNCHANGED <<stores, timers, now, issuedUuids, useLiveAnalysis, chat, history>>
        /\ IF BrainstormPromptThrows(analysisData)
           THEN /\ resp' = HandleApiError("POST /brainstorm", "generate brainstorming ideas")
                /\ call' = [NoCall EXCEPT !.fieldMissing = Falsy(analysisData)]
           ELSE /\ call' = [NoCall EXCEPT !.gen = gen]
                /\ IF gen = "json"
                   THEN resp' = [ep |-> "POST /brainstorm", status |-> 200,
                                 body |-> <<"idea">>]
                   ELSE resp' = HandleApiError("POST /brainstorm",
                                               "generate brainstorming ideas")

\* POST /enhance-prompt
EnhancePrompt ==
    \E basePrompt \in {Undefined, "", "prompt"}, gen \in GenOutcomes :
        /\ UNCHANGED <<stores, timers, now, issuedUuids, useLiveAnalysis, chat, history>>
        /\ IF Falsy(basePrompt)
           THEN /\ resp' = ErrorResponse("POST /enhance-prompt", 400, "basePrompt is required")
                /\ call' = LackingField
           ELSE /\ call' = [NoCall EXCEPT !.gen = gen]
                /\ IF gen = "throw"
                   THEN resp' = HandleApiError("POST /enhance-prompt", "enhance music prompt")
                   ELSE resp' = [ep |-> "POST /enhance-prompt", status |-> 200,
                                 body |-> [enhancedPrompt |-> "enhanced"]]

\* POST /feedback: email is optional.
Feedback ==
    \E type \in {Undefined, "bug"}, message \in {Undefined, "", "text"} :
        /\ UNCHANGED <<stores, timers, now, issuedUuids, useLiveAnalysis, chat, history>>
        /\ IF Falsy(type) \/ Falsy(message)
           THEN /\ resp' = ErrorResponse("POST /feedback", 400,
                                         "Feedback type and message are required.")
                /\ call' = LackingField
           ELSE /\ resp' = [ep |-> "POST /feedback", status |-> 204, body |-> <<>>]
                /\ call' = NoCall

----------------------------------------------------------------------------
(* POST /assistant-chat: one request at a time, streamed *)

MaxChunks == 2         \* chunks an upstream stream yields at most

ChunkStreams == UNION {[1..n -> {"c1", "c2"}] : n \in 0..MaxChunks}

\* history as posted: absent, an array of messages, or a truthy non-array.
ChatHistories == {Undefined, "array", "not-array"}

NoChat == [pc |-> "idle", upstream |-> <<>>, failsAt |-> 0, written |-> <<>>,
           headersSent |-> FALSE, ended |-> FALSE, connected |-> TRUE,
           lateError |-> FALSE, contentType |-> ""]

\* Validation, the history mapping and sendMessageStream (lines 436-458): the
\* request is refused, fails before anything is sent, or the stream is open and
\* Content-Type is set; resp then waits for the response to be complete.  failsAt = k > 0 says the upstream stream throws in place
\* of its k-th chunk; 0 says it completes.
ChatStart ==
    /\ chat.pc \in {"idle", "done", "failed"}
    /\ UNCHANGED <<stores, timers, now, issuedUuids, useLiveAnalysis, history>>
    /\ \E hist \in ChatHistories, message \in {Undefined, "hi"},
          context \in {Undefined, "home"}, gen \in {"stream", "throw"} :
          IF Falsy(hist) \/ Falsy(message) \/ Falsy(context)
          THEN /\ resp' = ErrorResponse("POST /assistant-chat", 400,
                                        "History, message, and context are required.")
               /\ call' = LackingField
               /\ chat' = NoChat
          ELSE IF hist = "not-array" \/ gen = "throw"
          THEN \* history.map is not a function, or sendMessageStream rejects
               /\ resp' = HandleApiError("POST /assistant-chat",
                                         "process assistant chat stream")
               /\ call' = [NoCall EXCEPT !.gen = IF hist = "not-array" THEN "none" ELSE gen]
               /\ chat' = NoChat
          ELSE \E chunks \in ChunkStreams, failsAt \in 0..(MaxChunks + 1) :
               /\ failsAt <= Len(chunks) + 1
               /\ chat' = [NoChat EXCEPT !.pc = "streaming", !.upstream = chunks,
                                         !.failsAt = failsAt,
                                         !.contentType = "text/plain; charset=utf-8"]
               /\ UNCHANGED <<resp, call>>

ChatNextIndex == Len(chat.written) + 1

\* One turn of the for-await loop: res.write(chunk.text).  The first write sends
\* the headers.  A write to a closed connection is dropped without an error.
ChatChunk ==
    /\ chat.pc = "streaming"
    /\ ChatNextIndex <= Len(chat.upstream)
    /\ chat.failsAt # ChatNextIndex
    /\ chat' = [chat EXCEPT !.written = Append(@, chat.upstream[ChatNextIndex]),
                            !.headersSent = TRUE]
    /\ UNCHANGED <<stores, timers, now, issuedUuids, useLiveAnalysis, resp, call, history>>

\* res.end() reached while the upstream stream still has chunks to yield.
ChatEndEarly ==
    /\ chat.pc = "streaming"
    /\ chat.failsAt # ChatNextIndex
    /\ chat' = [chat EXCEPT !.pc = "done", !.headersSent = TRUE, !.ended = TRUE]
    /\ resp' = [ep |-> "POST /assistant-chat", status |-> 200,
                body |-> [contentType |-> "text/plain; charset=utf-8",
                          text |-> chat.written]]
    /\ call' = [NoCall EXCEPT !.gen = "stream"]
    /\ UNCHANGED <<stores, timers, now, issuedUuids, useLiveAnalysis, history>>

\* The upstream stream is exhausted: res.end().
ChatEnd ==
    /\ chat.pc = "streaming"
    /\ ChatNextIndex > Len(chat.upstream)
    /\ chat.failsAt # ChatNextIndex
    /\ chat' = [chat EXCEPT !.pc = "done", !.headersSent = TRUE, !.ended = TRUE]
    /\ resp' = [ep |-> "POST /assistant-chat", status |-> 200,
                body |-> [contentType |-> "text/plain; charset=utf-8",
                          text |-> chat.written]]
    /\ call' = [NoCall EXCEPT !.gen = "stream"]
    /\ UNCHANGED <<stores, timers, now, issuedUuids, useLiveAnalysis, history>>

\* The upstream stream throws inside the loop: the catch calls handleApiError.
\* Before the first write the headers are still unsent and the 500 goes out
\* (res.json keeps the Content-Type already set, chat.contentType); after it, res.status(500).json(...) throws ERR_HTTP_HEADERS_SENT inside the
\* catch and the response is left open.
ChatStreamError ==
    /\ chat.pc = "streaming"
    /\ chat.failsAt = ChatNextIndex
    /\ IF chat.headersSent
       THEN /\ chat' = [chat EXCEPT !.pc = "failed", !.lateError = TRUE]
            /\ UNCHANGED <<resp, call>>
       ELSE /\ chat' = [chat EXCEPT !.pc = "failed", !.headersSent = TRUE, !.ended = TRUE]
            /\ resp' = HandleApiError("POST /assistant-chat", "process assistant chat stream")
            /\ call' = [NoCall EXCEPT !.gen = "throw"]
    /\ UNCHANGED <<stores, timers, now, issuedUuids, useLiveAnalysis, history>>

\* The client closes the connection while the stream is being forwarded; the
\* handler listens to no event of the request or the response.
ClientDisconnect ==
    /\ chat.pc = "streaming"
    /\ chat.connected
    /\ chat' = [chat EXCEPT !.connected = FALSE]
    /\ UNCHANGED <<stores, timers, now, issuedUuids, useLiveAnalysis, resp, call, history>>

----------------------------------------------------------------------------
(* Initial state and the specifications of the store endpoints *)

NoResponse == [ep |-> "none", status |-> 0, body |-> <<>>]

Init ==
    /\ sharedAnalyses = EmptyMap
    /\ catalogEntries = <<>>
    /\ audioStore = EmptyMap
    /\ timers = <<>>
    /\ now = 0
    /\ issuedUuids = {}
    /\ useLiveAnalysis \in BOOLEAN
    /\ chat = NoChat
    /\ resp = NoResponse
    /\ call = NoCall
    /\ shareLog = <<>>
    /\ audioLog = EmptyMap
    /\ submitLog = <<>>
    /\ issuedIds = {}

\* Shared analyses: creation, expiry, retrieval.
NextShare == Share \/ ExpireShared \/ Tick \/ GetAnalysis
SpecShare == Init /\ [][NextShare]_vars

\* Catalog entries and audio blobs: the two stores /catalog/submit writes.
NextCatalog == AnalysisAudio \/ GetAudio \/ CatalogSubmit \/ GetCatalogEntries \/ Tick
SpecCatalog == Init /\ [][NextCatalog]_vars

\* The analysis endpoints.
NextAnalysis == Analyze \/ Compare
SpecAnalysis == Init /\ [][NextAnalysis]_vars

\* The JSON endpoints backed by the generative-text API, and /feedback.
NextText ==
    \/ GenerateReport
    \/ Brainstorm
    \/ EnhancePrompt
    \/ Feedback
    \/ ChatStart
    \/ ChatChunk
    \/ ChatEnd
    \/ ChatStreamError
    \/ ClientDisconnect
SpecText == Init /\ [][NextText]_vars

\* The four upload endpoints: every request to the two that write a store, and
\* the requests to the two analysis endpoints that lack a required file, under
\* both configurations (the answers to their complete requests are the subject
\* of SpecAnalysis).
AnalyzeWithoutFile == AnalyzeRequest(FALSE)
CompareWithoutFile ==
    \E hasAiSong \in BOOLEAN, hasCopyrightedSong \in BOOLEAN :
        /\ ~(hasAiSong /\ hasCopyrightedSong)
        /\ CompareRequest(hasAiSong, hasCopyrightedSong)
NextUpload == AnalyzeWithoutFile \/ CompareWithoutFile \/ AnalysisAudio \/ CatalogSubmit
SpecUpload == Init /\ [][NextUpload]_vars

\* The whole router.
Next ==
    \/ Share
    \/ ExpireShared
    \/ Tick
    \/ GetAnalysis
    \/ AnalysisAudio
    \/ GetAudio
    \/ CatalogSubmit
    \/ GetCatalogEntries
    \/ Analyze
    \/ Compare
    \/ NextText

Spec == Init /\ [][Next]_vars

\* The whole router seen one request at a time: a history of at most
\* MaxFrameWrites successful store writes (with the clock and the expiry timers
\* running), then one request to any endpoint, a chat request being followed
\* to the end of its stream.
MaxFrameWrites == 1

StoreWrites == Len(shareLog) + Len(submitLog) + Cardinality(DOMAIN audioLog)

StoreWritten(r) ==
    \/ r.ep = "none"
    \/ r.ep \in {"POST /share", "POST /catalog/submit"} /\ r.status = 201
    \/ r.ep = "POST /analysis-audio" /\ r.status = 204

\* No request has been answered yet but successful writes, and no chat stream
\* is open.
Quiescent == StoreWritten(resp) /\ chat.pc = "idle"

NextFrame ==
    \/ /\ Quiescent
       /\ Share \/ AnalysisAudio \/ CatalogSubmit
       /\ StoreWritten(resp') => StoreWrites < MaxFrameWrites
    \/ /\ Quiescent
       /\ \/ ExpireShared
          \/ Tick
          \/ GetAnalysis
          \/ GetAudio
          \/ GetCatalogEntries
          \/ Analyze
          \/ Compare
          \/ GenerateReport
          \/ Brainstorm
          \/ EnhancePrompt
          \/ Feedback
          \/ ChatStart
    \/ ChatChunk
    \/ ChatEnd
    \/ ChatStreamError
    \/ ClientDisconnect
SpecFrame == Init /\ [][NextFrame]_vars

----------------------------------------------------------------------------
(* Claims about the stores *)

SharedBody(s) == [analysisData |-> s.analysisData, reportText |-> s.reportText]

\* C1: after a successful POST /share returned X, GET /analysis/X answers 200
\* with exactly the posted analysisData and reportText until that request's
\* expiry timer fires, and 404 once it has fired.
C1_SharedRetrievableUntilExpiry ==
    \A i \in 1..Len(shareLog) :
        LET s == shareLog[i]
            r == AnalysisResponse(s.id)
        IN  IF s.fired
            THEN r.status = 404
            ELSE r.status = 200 /\ r.body = SharedBody(s)

ExpectedAudio(file) ==
    [ep |-> "GET /audio", status |-> 200,
     body |-> [contentType |-> file.mimetype,
               contentLength |-> Len(file.buffer),
               bytes |-> file.buffer]]

\* C2: GET /audio/:id answers 404 for an identifier nothing was ever stored
\* under, and otherwise 200 with the bytes and MIME type of the latest store
\* under it, Content-Length being the number of those bytes.
C2_AudioLastWriteWins ==
    \A id \in AllIds :
        IF id \in DOMAIN audioLog
        THEN AudioResponse(id) = ExpectedAudio(audioLog[id].file)
        ELSE AudioResponse(id).status = 404 /\ DOMAIN AudioResponse(id).body = {"error"}

\* C2 witness: an identifier stored twice has been fetched, and the response
\* carries the second file.
C2_Witness ==
    /\ resp.ep = "GET /audio" /\ resp.status = 200
    /\ \E id \in DOMAIN audioLog :
         /\ audioLog[id].replaced
         /\ resp = ExpectedAudio(audioLog[id].file)
         /\ \E other \in AllIds \ DOMAIN audioLog : AudioResponse(other).status = 404

\* C9: every key of the three stores is an identifier the server generated, and
\* no identifier is the key of two different stored entries over the life of
\* the process.
C9_KeysGeneratedAndNeverReused ==
    /\ DOMAIN sharedAnalyses \subseteq issuedIds
    /\ OrderedKeys(catalogEntries) \subseteq issuedIds
    /\ DOMAIN audioStore \subseteq issuedIds
    /\ \A i, j \in 1..Len(shareLog) : i # j => shareLog[i].id # shareLog[j].id
    /\ \A i, j \in 1..Len(submitLog) : i # j => submitLog[i].id # submitLog[j].id
    /\ \A id \in DOMAIN audioLog : ~audioLog[id].replaced

\* C10: a catalog entry stored by POST /catalog/submit is never updated or
\* deleted: GET /catalog/entries lists it, once, with the field values the
\* submission returned, whatever happened since.
C10_CatalogEntriesPermanent ==
    LET listed == CatalogEntriesResponse.body
    IN  \A i \in 1..Len(submitLog) :
            /\ \E j \in 1..Len(listed) : listed[j] = submitLog[i]
            /\ Cardinality({j \in 1..Len(listed) : listed[j].id = submitLog[i].id}) = 1

\* C10 witness: two entries were submitted at different times, other requests
\* followed, and the listing shows both.
C10_Witness ==
    /\ Len(submitLog) = 2
    /\ submitLog[1].dateSubmitted < submitLog[2].dateSubmitted
    /\ submitLog[2].dateSubmitted < now
    /\ resp.ep = "GET /catalog/entries"
    /\ Len(resp.body) = 2
    /\ resp.body[2] = submitLog[1]
    /\ \E id \in DOMAIN audioLog : audioLog[id].replaced

----------------------------------------------------------------------------
(* Claims about the upload and analysis endpoints *)

UploadEndpoints == {"POST /analyze", "POST /compare", "POST /analysis-audio",
                    "POST /catalog/submit"}

IsSuccessfulAnalysis(r) ==
    /\ r.status = 200
    /\ DOMAIN r.body = {"analysisData", "reportText"}
    /\ r.body.reportText = ReportText

IsGenericError(r) == r.status = 500 /\ DOMAIN r.body = {"error"}

CompleteScanWithoutCredentials ==
    resp.ep = "POST /analyze" /\ ~useLiveAnalysis /\ ~call.fileMissing

\* C5 as stated: without fingerprinting credentials, every POST /analyze that
\* carries an audio file is answered 200 with an analysis record and a report.
C5_SimulatedScanAlwaysSucceeds ==
    CompleteScanWithoutCredentials => IsSuccessfulAnalysis(resp)

\* C5 amended: without fingerprinting credentials, every POST /analyze that
\* carries an audio file takes the simulated path and never asks ACRCloud; it
\* is answered 200 with a one-match analysis record and the report when the
\* generative-text call returns, and 500 with the generic error when that call
\* throws.
C5_SimulatedScanSucceedsWhenReportDoes ==
    CompleteScanWithoutCredentials =>
        /\ call.acrCalls = 0
        /\ call.gen \in GenOutcomes
        /\ call.gen = "text" =>
             /\ IsSuccessfulAnalysis(resp)
             /\ resp.body.analysisData.fingerprinting.matches = 1
             /\ resp.body.analysisData.overview.similarity \in 10..89
        /\ call.gen = "throw" => IsGenericError(resp)

\* C5 witness: a complete scan request without credentials was answered 200.
C5_Witness ==
    /\ CompleteScanWithoutCredentials
    /\ call.gen = "text"
    /\ IsSuccessfulAnalysis(resp)
    /\ resp.body.analysisData.overview.riskLevel = "High"

\* C6: with live analysis enabled, a failed fingerprinting call (network error,
\* non-OK response, ACRCloud code other than 0 and 1001) is caught and
\* POST /analyze goes on with the synthetic record; ACRCloud is asked once.
C6_LiveFailureFallsBack ==
    (resp.ep = "POST /analyze" /\ useLiveAnalysis /\ ~call.fileMissing /\ AcrFailed(call.acr))
        => /\ call.acrCalls = 1
           /\ call.gen \in GenOutcomes
           /\ call.gen = "text" =>
                /\ IsSuccessfulAnalysis(resp)
                /\ resp.body.analysisData.fingerprinting.matches = 1

\* C7: every analysis record POST /analyze returns has riskLevel 'High' when
\* riskScore > 75, 'Medium' when 40 < riskScore <= 75, and 'Low' otherwise.
C7_ScanRiskLevelMatchesScore ==
    (resp.ep = "POST /analyze" /\ resp.status = 200)
        => LET o == resp.body.analysisData.overview
           IN  o.riskLevel = IF o.riskScore > 75 THEN "High"
                             ELSE IF o.riskScore > 40 THEN "Medium" ELSE "Low"

\* C7 witness: a live scan that found no match returned a record whose
\* riskScore is above 10 and whose riskLevel is 'Low'.
C7_Witness ==
    /\ resp.ep = "POST /analyze" /\ resp.status = 200
    /\ call.acr.kind = "json"
    /\ resp.body.analysisData.fingerprinting.matches = 0
    /\ resp.body.analysisData.overview.riskScore > 10
    /\ resp.body.analysisData.overview.riskLevel = "Low"

\* C8: every analysis record POST /compare returns has similarity within
\* [50,100], riskScore = floor(similarity * 0.8) + jitter with jitter in
\* [0,19], and riskLevel following the thresholds (>75 High, >40 Medium).
C8_ComparisonRanges ==
    (resp.ep = "POST /compare" /\ resp.status = 200)
        => LET o == resp.body.analysisData.overview
           IN  /\ o.similarity \in 50..100
               /\ o.riskScore - ((o.similarity * 8) \div 10) \in 0..19
               /\ o.riskLevel = IF o.riskScore > 75 THEN "High"
                                ELSE IF o.riskScore > 40 THEN "Medium" ELSE "Low"

\* C8 witness: a comparison returned similarity 75 with riskScore 75, the
\* largest score that is still 'Medium'.
C8_Witness ==
    /\ resp.ep = "POST /compare" /\ resp.status = 200
    /\ resp.body.analysisData.overview.similarity = 75
    /\ resp.body.analysisData.overview.riskScore = 75
    /\ resp.body.analysisData.overview.riskLevel = "Medium"

----------------------------------------------------------------------------
(* Claims about error translation *)

JsonEndpoints == {"POST /generate-report", "POST /assistant-chat", "POST /brainstorm",
                  "POST /enhance-prompt", "POST /feedback"}

\* C4: a request whose required body field is missing is answered with 400 and
\* only other exceptions with 500 and the generic message; in particular
\* POST /brainstorm without analysisData and POST /assistant-chat without
\* history, message or context are answered with 400, not 500.
C4_MissingFieldIs400 ==
    resp.ep \in JsonEndpoints =>
        /\ call.fieldMissing => resp.status = 400
        /\ resp.status = 500 => (~call.fieldMissing /\ IsGenericError(resp))

----------------------------------------------------------------------------
(* Claims about the streaming chat endpoint *)

IsPrefix(s, t) == Len(s) <= Len(t) /\ s = SubSeq(t, 1, Len(s))

\* C11: for a valid POST /assistant-chat the writes to the response are, in
\* order and one per chunk, the chunks the upstream stream has yielded so far;
\* res.end() is reached only when every chunk of the upstream stream has been
\* written; and a client disconnect changes nothing of the forwarding: the
\* stream, the position in it and the writes made stay as they were.
C11_ChunksForwardedInOrder ==
    /\ [](/\ IsPrefix(chat.written, chat.upstream)
          /\ chat.pc = "done" => (chat.ended /\ chat.written = chat.upstream))
    /\ [][(chat.connected /\ ~chat'.connected) =>
              /\ chat.pc = "streaming" /\ chat'.pc = "streaming"
              /\ chat'.upstream = chat.upstream
              /\ chat'.failsAt = chat.failsAt
              /\ chat'.written = chat.written]_vars

\* C11 witness: the client has disconnected and the handler has written both
\* of two different chunks and ended the response.
C11_Witness ==
    /\ ~chat.connected
    /\ chat.pc = "done"
    /\ chat.written = <<"c1", "c2">>

\* C12: every POST /assistant-chat request that has left the handler has a
\* response that was ended, and handleApiError is never called once a chunk
\* has been written.
C12_OneWellFormedResponse ==
    /\ chat.pc \in {"done", "failed"} => chat.ended
    /\ chat.written # <<>> => ~chat.lateError

----------------------------------------------------------------------------
(* Claims about the lifetime of a shared analysis *)

\* C13: a shared analysis created at time t is returned by GET /analysis/<id>
\* at every moment before t + 24 h, and the expiry timer of one /share request
\* deletes the entry of that request only: no later /share request has stored
\* the entry the timer removes.
C13_SharedLivesFullTtl ==
    /\ [](\A i \in 1..Len(shareLog) :
            LET s == shareLog[i]
                r == AnalysisResponse(s.id)
            IN  now < s.at + ShareTtlMs => (r.status = 200 /\ r.body = SharedBody(s)))
    /\ [][(timers # <<>> /\ timers' = Tail(timers)) =>
              ~\E j \in (OldestPending + 1)..Len(shareLog) :
                    shareLog[j].id = Head(timers).id]_vars

----------------------------------------------------------------------------
(* Claims about the audio of catalog entries *)

\* C14: every catalog entry has an audio blob under its id, and no step
\* changes what GET /audio/<entry id> returns for an entry already in the
\* catalog: the bytes and MIME type stay those stored by the submission.
C14_CatalogAudioNeverReplaced ==
    /\ [](\A id \in OrderedKeys(catalogEntries) : AudioResponse(id).status = 200)
    /\ [][\A id \in OrderedKeys(catalogEntries) :
              AudioResponse(id)' = AudioResponse(id)]_vars

----------------------------------------------------------------------------
(* Claims about which requests change the stores *)

\* C15: a step that changes sharedAnalyses, catalogEntries or audioStore is
\* the expiry timer of /share, or a POST /share answered 201 (changing
\* sharedAnalyses only), a POST /analysis-audio/:id answered 204 (changing
\* audioStore only) or a POST /catalog/submit answered 201 (leaving
\* sharedAnalyses alone); so no request answered 400, 404 or 500 and no
\* request to another endpoint changes a store.
C15_StoresChangeOnlyOnSuccess ==
    [][stores' # stores =>
          \/ ExpireShared
          \/ /\ Share
             /\ resp'.status = 201
             /\ UNCHANGED <<catalogEntries, audioStore>>
          \/ /\ AnalysisAudio
             /\ resp'.status = 204
             /\ UNCHANGED <<sharedAnalyses, catalogEntries>>
          \/ /\ CatalogSubmit
             /\ resp'.status = 201
             /\ UNCHANGED sharedAnalyses]_vars

\* C15 witness: after one catalog submission was stored, a second submission
\* failed with 500 and the two stores still hold exactly the first.
C15_Witness ==
    /\ Len(submitLog) = 1
    /\ resp.ep = "POST /catalog/submit" /\ resp.status = 500
    /\ OrderedKeys(catalogEntries) = {submitLog[1].id}
    /\ DOMAIN audioStore = {submitLog[1].id}
    /\ issuedUuids # {submitLog[1].id}

====
